---- MODULE Spec2Model ----
(***************************************************************************)
(* PVschedule: the dynamic-programming scheduler dynamic_prog_pv           *)
(* (Modules/DynamicProg/dynamic_programming.py), the calendar generator    *)
(* allowed_generator (Modules/Model/allowed_generator.py), the loop of     *)
(* integrate_nlp_sol (Modules/NLP/integrate_nlp_sol.py), the heuristic     *)
(* pv_heuristic_alg (Modules/Heuristic/heuristic_alg.py) and the entry     *)
(* point pv_schedule (pv_schedule.py).                                     *)
(*                                                                         *)
(* Conventions                                                             *)
(*  - Python lists are sequences (1-based here, 0-based in the source).    *)
(*  - A Python dict is a function whose DOMAIN is the set of keys present. *)
(*  - A Python float that only takes part in exact comparisons is kept as  *)
(*    a rational (numerator over a stated denominator).  The float that is *)
(*    accumulated and truncated (current_time in allowed_generator) is an  *)
(*    IEEE double, modelled bit-exactly (FRound, FAdd, FRecip, FInt).      *)
(*  - +infinity is the value inf; PlusInf and LessInf are float + and <.   *)
(***************************************************************************)
EXTENDS Integers, Sequences, FiniteSets, TLC

VARIABLES
  \* ---- inputs of dynamic_prog_pv / allowed_generator
  Tf,              \* end time in days (an integer number of days)
  Nperday,         \* integration points per day
  allowed_opts,    \* dict: allowed_hours, allowed_days, forbidden_days
  dp_options,      \* dict: NX, NU, p_shift (NK is part of dyn)
  x0,              \* initial state, three values num/den
  Base,            \* steady state value of x3
  patient_volume,  \* blood volume in ml
  max_fraction,    \* maximal fractional blood loss per treatment, num/den
  dyn,             \* what the RK4 integration does to a grid point
  \* ---- locals of allowed_generator
  gen,
  \* ---- locals of dynamic_prog_pv
  pc,
  t_blocked,
  X1_before_shift, X2_before_shift, X3_before_shift, Q_before_shift,
  next_x1, next_x2, next_x3, stage_J,
  J, U_opt, k,
  i1, i2, i3, cost, u_opt, x1_opt, x2_opt, x3_opt, u_dp,
  \* ---- integrate_nlp_sol: the control applied at each integration step
  u_applied,
  \* ---- pv_schedule and pv_heuristic_alg
  allowed_arr,     \* the 0/1 list handed to pv_heuristic_alg
  heu,             \* locals and result of pv_heuristic_alg
  sched,           \* locals and result of pv_schedule
  \* ---- integrate_nlp_sol called on its own
  intg,            \* locals and result of integrate_nlp_sol
  \* ---- sumup
  su               \* locals and result of sumup

inVars  == <<Tf, Nperday, allowed_opts, dp_options, x0, Base, patient_volume,
             max_fraction, dyn>>
tabVars == <<X1_before_shift, X2_before_shift, X3_before_shift, Q_before_shift,
             next_x1, next_x2, next_x3, stage_J>>
bwdVars == <<J, U_opt>>
repVars == <<i1, i2, i3, cost, u_opt, x1_opt, x2_opt, x3_opt>>
dpVars  == <<pc, t_blocked, tabVars, bwdVars, k, repVars, u_dp, u_applied>>
schedVars == <<allowed_arr, heu, sched>>
vars    == <<inVars, gen, dpVars, schedVars, intg, su>>

-----------------------------------------------------------------------------
(* Bounds of the model.                                                    *)
MaxTf      == 3    \* horizons 1..MaxTf days in the solver runs
MaxTfCal   == 14   \* horizons 1..MaxTfCal days in the calendar runs
MaxNperday == 3    \* integration points per day, calendar runs
MaxNX      == 2    \* grid points per dimension
SubCells   == 3    \* a continuous value is a multiple of 1/SubCells of a cell
MaxDrift   == 2    \* largest per-day growth of x3, in sub-cells
MaxNHeu    == 4    \* integration points 1..MaxNHeu in the heuristic runs
MaxTfSched == 2    \* horizons 1..MaxTfSched days in the pv_schedule runs
MaxNInt    == 3    \* integration points 1..MaxNInt in the integrate_nlp_sol runs
MaxLenSum  == 6    \* relaxed controls of up to MaxLenSum entries in the sumup runs

-----------------------------------------------------------------------------
(* IEEE-754 binary64 arithmetic on the non-negative values below 16 that   *)
(* current_time takes.  A double is [hi, lo] and stands for                *)
(* (hi * 2^30 + lo) * 2^-56; results are rounded to MantBits significant   *)
(* bits, ties to even.                                                     *)
MantBits == 53
Limb     == 2^30

BitLen(x) ==
  IF x = 0 THEN 0
  ELSE CHOOSE b \in 1..30 : 2^(b-1) <= x /\ (b = 30 \/ x < 2^b)

FRound(hi, lo, sticky) ==
  LET p == IF hi > 0 THEN 30 + BitLen(hi) ELSE BitLen(lo)
      d == p - MantBits
  IN IF d <= 0 THEN [hi |-> hi, lo |-> lo]
     ELSE LET rem  == lo % (2^d)
              half == 2^(d-1)
              up   == rem > half
                      \/ (rem = half /\ (sticky \/ (lo \div (2^d)) % 2 = 1))
              lo2  == IF up THEN lo - rem + 2^d ELSE lo - rem
          IN [hi |-> hi + lo2 \div Limb, lo |-> lo2 % Limb]

\* 1./n for 1 <= n <= 8
FRecip(n) ==
  LET r0 == (2^26) % n
      a  == (r0 * 2^15) \div n
      r1 == (r0 * 2^15) % n
      b  == (r1 * 2^15) \div n
      r2 == (r1 * 2^15) % n
  IN FRound((2^26) \div n, a * 2^15 + b, r2 # 0)

\* x + y
FAdd(x, y) ==
  LET l == x.lo + y.lo
  IN FRound(x.hi + y.hi + l \div Limb, l % Limb, FALSE)

\* int(x)
FInt(x) == x.hi \div (2^26)

FZero == [hi |-> 0, lo |-> 0]

FOne == [hi |-> 2^26, lo |-> 0]

FLess(x, y) == x.hi < y.hi \/ (x.hi = y.hi /\ x.lo < y.lo)

\* x - y for x >= y
FSub(x, y) ==
  LET l == x.lo - y.lo
  IN IF l >= 0 THEN FRound(x.hi - y.hi, l, FALSE)
     ELSE FRound(x.hi - y.hi - 1, l + Limb, FALSE)

\* 1.5 * x, as x + x/2 rounded once
FThreeHalves(x) ==
  LET hhi == x.hi \div 2
      hlo == (x.hi % 2) * (Limb \div 2) + x.lo \div 2
      l   == x.lo + hlo
  IN FRound(x.hi + hhi + l \div Limb, l % Limb, x.lo % 2 = 1)

\* a signed double: the magnitude [hi, lo] and the sign
FPos(x) == [neg |-> FALSE, hi |-> x.hi, lo |-> x.lo]
FNeg(x) == [neg |-> x # FZero, hi |-> x.hi, lo |-> x.lo]
FMag(w) == [hi |-> w.hi, lo |-> w.lo]

\* w + y for a signed w and y >= 0
FPlus(w, y) ==
  IF ~w.neg THEN FPos(FAdd(FMag(w), y))
  ELSE IF FLess(y, FMag(w)) THEN FNeg(FSub(FMag(w), y))
       ELSE FPos(FSub(y, FMag(w)))

\* w - 1 for a signed w > 0
FMinusOne(w) ==
  IF FLess(FMag(w), FOne) THEN FNeg(FSub(FOne, FMag(w)))
  ELSE FPos(FSub(FMag(w), FOne))

\* the literal 1e-5 lies strictly between EpsBelow and the next multiple of
\* 2^-56: 1e-5 * 2^56 = 720575940379.27...
EpsBelow == [hi |-> 671, lo |-> 95176475]

-----------------------------------------------------------------------------
(* allowed_generator(Nperday, dict_opts, N, dt)                            *)

\* a forbidden_days entry: a single int d, or range(start, stop)
IntDay(d)      == [type |-> "int",   start |-> d, stop |-> d + 1]
RangeDays(a,b) == [type |-> "range", start |-> a, stop |-> b]

Ones(n) == [j \in 1..n |-> 1]

\* lines 40-48: defaults of the two masks
GenHours(npd, opts) ==
  IF "allowed_hours" \in DOMAIN opts THEN opts["allowed_hours"] ELSE Ones(npd)
GenDays(opts) ==
  IF "allowed_days" \in DOMAIN opts THEN opts["allowed_days"] ELSE Ones(7)

\* lines 50-61: the flattened list of forbidden days, kept as the set of its
\* elements (it is only used for "not in")
GenForbidden(opts) ==
  IF "forbidden_days" \in DOMAIN opts
  THEN LET tmp == opts["forbidden_days"]
       IN UNION { IF tmp[j].type = "int" THEN {tmp[j].start}
                  ELSE tmp[j].start .. (tmp[j].stop - 1) : j \in 1..Len(tmp) }
  ELSE {}

\* lines 64-68
GenStart ==
  [pc |-> "loop", k |-> 0, hour_idx |-> 0, day_idx |-> 0,
   current_time |-> FZero, allowed_arr |-> <<>>]

GenIdle ==
  [pc |-> "idle", k |-> 0, hour_idx |-> 0, day_idx |-> 0,
   current_time |-> FZero, allowed_arr |-> <<>>]

\* lines 69-84: one iteration of the loop, or leaving it
GenStep(g, npd, opts, N, dt) ==
  IF g.k >= N THEN [g EXCEPT !.pc = "done"]
  ELSE
    LET allowed == GenHours(npd, opts)[g.hour_idx + 1] > 0
                   /\ GenDays(opts)[g.day_idx + 1] > 0
                   /\ FInt(g.current_time) \notin GenForbidden(opts)
        h1 == g.hour_idx + 1
        d1 == IF h1 = npd THEN g.day_idx + 1 ELSE g.day_idx
    IN [pc |-> "loop", k |-> g.k + 1,
        hour_idx |-> IF h1 = npd THEN 0 ELSE h1,
        day_idx |-> IF d1 = 7 THEN 0 ELSE d1,
        current_time |-> FAdd(g.current_time, dt),
        allowed_arr |-> Append(g.allowed_arr, IF allowed THEN 1 ELSE 0)]

\* the whole call, as a function of its arguments
allowed_generator(npd, opts, N, dt) ==
  LET run[j \in 0..N] ==
        IF j = 0 THEN GenStart ELSE GenStep(run[j-1], npd, opts, N, dt)
  IN run[N].allowed_arr

-----------------------------------------------------------------------------
(* dynamic_prog_pv: grid, values and the rounding rule                     *)

inf == -1
PlusInf(a, b) == IF a = inf \/ b = inf THEN inf ELSE a + b
\* LessInf on the bare representation of the values
LessInfBare(a, b) == a < b
LessInf(a, b) == a # inf /\ (b = inf \/ a < b)

NX == dp_options["NX"]
NU == dp_options["NU"]
N  == Tf                                          \* line 72, N = int(Tf)

Cells(nx) == (0..(nx-1)) \X (0..(nx-1)) \X (0..(nx-1))

\* A continuous state value is the rational num/den.  Grid values have the
\* denominator ValDen.
ValDen(nx) == 10 * (nx - 1) * SubCells

\* lines 115-117: the hard coded domain, as numerators over ValDen
X1Lo == 50
X1Hi == 170
X2Lo == 35
X2Hi == 150
LoNum(dim, nx) ==
  CASE dim = 1 -> X1Lo * ValDen(nx)
    [] dim = 2 -> X2Lo * ValDen(nx)
    [] dim = 3 -> 8 * Base * (nx - 1) * SubCells          \* 0.8*Base
HiNum(dim, nx) ==
  CASE dim = 1 -> X1Hi * ValDen(nx)
    [] dim = 2 -> X2Hi * ValDen(nx)
    [] dim = 3 -> 11 * Base * (nx - 1) * SubCells         \* 1.1*Base

\* linspace(lo, hi, nx)[i]
linspace(dim, nx, i) ==
  LoNum(dim, nx) + (i * (HiNum(dim, nx) - LoNum(dim, nx))) \div (nx - 1)

\* the width of a sub-cell (1/SubCells of the tick distance)
SubW(dim, nx) == (HiNum(dim, nx) - LoNum(dim, nx)) \div ((nx - 1) * SubCells)

\* round(P/Q) for Q > 0, ties to even (numpy round and Python 3 round)
round(P, Q) ==
  LET fl == P \div Q
      r  == P - fl * Q
  IN IF 2 * r < Q THEN fl
     ELSE IF 2 * r > Q THEN fl + 1
     ELSE IF fl % 2 = 0 THEN fl ELSE fl + 1

\* RoundIdx scaled by NX in place of NX - 1
RoundIdxByNX(v, dim, nx, sh) ==
  LET span == HiNum(dim, nx) - LoNum(dim, nx)
      P == sh * v.den * span
           + SubCells * (v.num * ValDen(nx) - LoNum(dim, nx) * v.den) * nx
      Q == SubCells * v.den * span
  IN round(P, Q)

\* lines 174-176 and 247-249:
\*   round(p_shift + (value - x[0]) / (x[-1] - x[0]) * (NX - 1))
\* for value = v.num/v.den and p_shift = sh/SubCells
RoundIdx(v, dim, nx, sh) ==
  LET span == HiNum(dim, nx) - LoNum(dim, nx)
      P == sh * v.den * span
           + SubCells * (v.num * ValDen(nx) - LoNum(dim, nx) * v.den) * (nx - 1)
      Q == SubCells * v.den * span
  IN round(P, Q)

GridVal(dim, nx, i) == [num |-> linspace(dim, nx, i), den |-> ValDen(nx)]

RECURSIVE Gcd(_, _)
Gcd(a, b) == IF b = 0 THEN a ELSE Gcd(b, a % b)

\* lines 142-143: X3_k *= (1 - 500./patient_volume)
Treat(v) ==
  LET g == Gcd(patient_volume, patient_volume - 500)
  IN [num |-> v.num * ((patient_volume - 500) \div g),
      den |-> v.den * (patient_volume \div g)]

\* lines 96-106 and 131-140: NK Runge-Kutta steps from a grid point.  The
\* ordinary differential equation is not evaluated here: over one decision
\* interval a coordinate moves by dyn.g1, dyn.g2, dyn.g3 sub-cells, and the
\* integral of the control is u * Tf/N = u.
Integrate(dim, nx, i) ==
  LET g == CASE dim = 1 -> dyn.g1 [] dim = 2 -> dyn.g2 [] dim = 3 -> dyn.g3
  IN [num |-> linspace(dim, nx, i) + g * SubW(dim, nx), den |-> ValDen(nx)]

\* line 109: U = linspace(0, 1, NU); U[j] == 1 exactly for the last entry.
\* Stage costs are counted in units of 1/(NU-1).
IsOne(nu, j) == j = nu - 1

-----------------------------------------------------------------------------
(* dynamic_prog_pv: the steps of one call                                  *)

Range(seq) == {seq[j] : j \in 1..Len(seq)}

\* [j for j in lo..hi-1], as a list
ListOf(S) ==
  LET RECURSIVE build(_)
      build(T) == IF T = {} THEN <<>>
                  ELSE LET m == CHOOSE x \in T : \A y \in T : x <= y
                       IN <<m>> \o build(T \ {m})
  IN build(S)

RECURSIVE Concat(_)
Concat(ss) == IF ss = <<>> THEN <<>> ELSE Head(ss) \o Concat(Tail(ss))

\* WeekBlocked with the test of allowed_generator (entry > 0)
WeekBlockedPositive(allowed_days, n) ==
  LET allowed_idx == {w \in 0..6 : allowed_days[w + 1] > 0}
  IN ListOf({j \in 0..(n - 1) : j % 7 \notin allowed_idx})

\* lines 75-77: the stages whose weekday is not enabled
WeekBlocked(allowed_days, n) ==
  LET allowed_idx == {w \in 0..6 : allowed_days[w + 1] = 1}
  IN ListOf({j \in 0..(n - 1) : j % 7 \notin allowed_idx})

\* lines 79-82: t_blocked += list(f) for every entry f
ForbiddenBlocked(opts) ==
  IF "forbidden_days" \in DOMAIN opts
  THEN LET fd == opts["forbidden_days"]
       IN Concat([j \in 1..Len(fd) |-> ListOf(fd[j].start .. (fd[j].stop - 1))])
  ELSE <<>>

\* list(f) raises TypeError for an entry that is an int
ForbiddenIterable(opts) ==
  "forbidden_days" \in DOMAIN opts
    => \A j \in 1..Len(opts["forbidden_days"]) :
         opts["forbidden_days"][j].type = "range"

\* line 76: allowed_days[i] for i in range(7) raises IndexError on a mask
\* with fewer than 7 entries; further entries are never read
WeekIndexable(opts) == Len(opts["allowed_days"]) >= 7

\* lines 72-82
Calendar ==
  /\ pc = "start"
  /\ IF /\ "allowed_days" \in DOMAIN allowed_opts
        /\ WeekIndexable(allowed_opts)
        /\ ForbiddenIterable(allowed_opts)
     THEN /\ t_blocked' = WeekBlocked(allowed_opts["allowed_days"], N)
                          \o ForbiddenBlocked(allowed_opts)
          /\ pc' = "integrate"
     ELSE /\ pc' = "error"         \* KeyError, IndexError or TypeError
          /\ UNCHANGED t_blocked
  /\ UNCHANGED <<inVars, intg, su, gen, schedVars, tabVars, bwdVars, k, repVars, u_dp, u_applied>>

\* lines 121-154: one tensor per control value U[j], j = 0..NU-1
Integrate3(nx, nu, j, c) ==
  IF IsOne(nu, j) THEN Treat(Integrate(3, nx, c[3])) ELSE Integrate(3, nx, c[3])

IntegrateAll ==
  /\ pc = "integrate"
  /\ X1_before_shift' = [j \in 0..(NU-1) |-> [c \in Cells(NX) |-> Integrate(1, NX, c[1])]]
  /\ X2_before_shift' = [j \in 0..(NU-1) |-> [c \in Cells(NX) |-> Integrate(2, NX, c[2])]]
  /\ X3_before_shift' = [j \in 0..(NU-1) |-> [c \in Cells(NX) |-> Integrate3(NX, NU, j, c)]]
  /\ Q_before_shift'  = [j \in 0..(NU-1) |-> [c \in Cells(NX) |-> j]]
  /\ pc' = "round"
  /\ UNCHANGED <<inVars, intg, su, gen, schedVars, t_blocked, next_x1, next_x2, next_x3, stage_J,
                 bwdVars, k, repVars, u_dp, u_applied>>

\* lines 157-161
p_shift == IF "p_shift" \in DOMAIN dp_options THEN dp_options["p_shift"] ELSE 0

\* Clamp without the upper checks of lines 189-197
ClampLowOnly(idx, nx) == IF idx < 0 THEN 0 ELSE idx

\* lines 180-197: an index outside the grid becomes 0
OutOfGrid(idx, nx) == idx < 0 \/ idx >= nx
Clamp(idx, nx) == IF OutOfGrid(idx, nx) THEN 0 ELSE idx

\* CostOf that keeps the integrated cost of an entry that left the grid
CostOfKept(q, r1, r2, r3, nx) == q

\* lines 178-197: the cost of an entry any of whose indices left the grid
CostOf(q, r1, r2, r3, nx) ==
  IF OutOfGrid(r1, nx) \/ OutOfGrid(r2, nx) \/ OutOfGrid(r3, nx) THEN inf ELSE q

\* lines 163-203: for u in {0, 1}
RoundAll ==
  /\ pc = "round"
  /\ LET R1(u, c) == RoundIdx(X1_before_shift[u][c], 1, NX, p_shift)
         R2(u, c) == RoundIdx(X2_before_shift[u][c], 2, NX, p_shift)
         R3(u, c) == RoundIdx(X3_before_shift[u][c], 3, NX, p_shift)
     IN /\ next_x1' = [u \in 0..1 |-> [c \in Cells(NX) |-> Clamp(R1(u, c), NX)]]
        /\ next_x2' = [u \in 0..1 |-> [c \in Cells(NX) |-> Clamp(R2(u, c), NX)]]
        /\ next_x3' = [u \in 0..1 |-> [c \in Cells(NX) |-> Clamp(R3(u, c), NX)]]
        /\ stage_J' = [u \in 0..1 |-> [c \in Cells(NX) |->
                         CostOf(Q_before_shift[u][c], R1(u, c), R2(u, c), R3(u, c), NX)]]
  \* lines 213-215
  /\ J' = [c \in Cells(NX) |-> 0]
  /\ U_opt' = <<>>
  /\ k' = N - 1
  /\ pc' = "backward"
  /\ UNCHANGED <<inVars, intg, su, gen, schedVars, t_blocked, X1_before_shift, X2_before_shift,
                 X3_before_shift, Q_before_shift, repVars, u_dp, u_applied>>

\* U_feas without the test of line 221
U_feasAlwaysBoth(kk, blocked) == <<0, 1>>

\* lines 221-224
U_feas(kk, blocked) == IF kk \in Range(blocked) THEN <<0>> ELSE <<0, 1>>

\* Better with <= in place of <
BetterOrEqual(test, prev) == test # inf /\ (prev = inf \/ test <= prev)

\* line 229: better = J_prev_test < J_prev
Better(test, prev) == LessInf(test, prev)

\* TryControl without the stage cost in the candidate
TryControlNoStageCost(acc, uind, Jcur, n1, n2, n3, sJ) ==
  LET J_prev_test == [c \in DOMAIN Jcur |->
        Jcur[<<n1[uind][c], n2[uind][c], n3[uind][c]>>]]
      better == [c \in DOMAIN Jcur |-> Better(J_prev_test[c], acc.J_prev[c])]
  IN [J_prev |-> [c \in DOMAIN Jcur |->
                    IF better[c] THEN J_prev_test[c] ELSE acc.J_prev[c]],
      u_prev |-> [c \in DOMAIN Jcur |->
                    IF better[c] THEN uind # 0 ELSE acc.u_prev[c]]]

\* lines 228-231: one control tried on the whole grid
TryControl(acc, uind, Jcur, n1, n2, n3, sJ) ==
  LET J_prev_test == [c \in DOMAIN Jcur |->
        PlusInf(Jcur[<<n1[uind][c], n2[uind][c], n3[uind][c]>>], sJ[uind][c])]
      better == [c \in DOMAIN Jcur |-> Better(J_prev_test[c], acc.J_prev[c])]
  IN [J_prev |-> [c \in DOMAIN Jcur |->
                    IF better[c] THEN J_prev_test[c] ELSE acc.J_prev[c]],
      u_prev |-> [c \in DOMAIN Jcur |->
                    IF better[c] THEN uind # 0 ELSE acc.u_prev[c]]]

\* TryAll that stops after the first admissible control
TryAllFirstOnly(acc, feas, Jcur, n1, n2, n3, sJ) ==
  IF feas = <<>> THEN acc
  ELSE TryControl(acc, Head(feas), Jcur, n1, n2, n3, sJ)

\* lines 227-231: for uind in U_feas
RECURSIVE TryAll(_, _, _, _, _, _, _)
TryAll(acc, feas, Jcur, n1, n2, n3, sJ) ==
  IF feas = <<>> THEN acc
  ELSE TryAll(TryControl(acc, Head(feas), Jcur, n1, n2, n3, sJ),
              Tail(feas), Jcur, n1, n2, n3, sJ)

\* Stage that starts the minimisation from cost 0
StageFromZero(feas, Jcur, n1, n2, n3, sJ) ==
  TryAll([J_prev |-> [c \in DOMAIN Jcur |-> 0],
          u_prev |-> [c \in DOMAIN Jcur |-> FALSE]],
         feas, Jcur, n1, n2, n3, sJ)

\* lines 218-231: one stage of the recursion
Stage(feas, Jcur, n1, n2, n3, sJ) ==
  TryAll([J_prev |-> [c \in DOMAIN Jcur |-> inf],
          u_prev |-> [c \in DOMAIN Jcur |-> FALSE]],
         feas, Jcur, n1, n2, n3, sJ)

\* line 235: sparse.COO keeps the coordinates of the nonzero entries
COO(dense) == {c \in DOMAIN dense : dense[c]}

\* line 253: U_opt[k][i1, i2, i3]
Lookup(sp, c) == IF c \in sp THEN 1 ELSE 0

\* BackwardStage that adds the stage cost to the cost table in place
BackwardStageInPlace ==
  /\ pc = "backward"
  /\ k >= 0
  /\ LET st == Stage(U_feas(k, t_blocked), J, next_x1, next_x2, next_x3, stage_J)
     IN /\ J' = st.J_prev
        /\ U_opt' = Append(U_opt, COO(st.u_prev))
  /\ stage_J' = [u \in 0..1 |-> [c \in Cells(NX) |-> PlusInf(stage_J[u][c], stage_J[u][c])]]
  /\ k' = k - 1
  /\ UNCHANGED <<inVars, intg, su, gen, schedVars, pc, t_blocked, X1_before_shift, X2_before_shift,
                 X3_before_shift, Q_before_shift, next_x1, next_x2, next_x3,
                 repVars, u_dp, u_applied>>

\* lines 215-236
BackwardStage ==
  /\ pc = "backward"
  /\ k >= 0
  /\ LET st == Stage(U_feas(k, t_blocked), J, next_x1, next_x2, next_x3, stage_J)
     IN /\ J' = st.J_prev
        /\ U_opt' = Append(U_opt, COO(st.u_prev))
  /\ k' = k - 1
  /\ UNCHANGED <<inVars, intg, su, gen, schedVars, pc, t_blocked, tabVars, repVars, u_dp, u_applied>>

\* Reorder that leaves the list in the order of the backward sweep
ReorderNot(policies) == policies

\* line 239
Reorder(policies) == [j \in 1..Len(policies) |-> policies[Len(policies) + 1 - j]]

\* lines 239-250
StartReplay ==
  /\ pc = "backward"
  /\ k < 0
  /\ U_opt' = Reorder(U_opt)
  /\ u_opt' = <<>>
  /\ x1_opt' = <<x0[1]>>
  /\ x2_opt' = <<x0[2]>>
  /\ x3_opt' = <<x0[3]>>
  /\ i1' = RoundIdx(x0[1], 1, NX, 0)
  /\ i2' = RoundIdx(x0[2], 2, NX, 0)
  /\ i3' = RoundIdx(x0[3], 3, NX, 0)
  /\ cost' = 0
  /\ k' = 0
  /\ pc' = "replay"
  /\ UNCHANGED <<inVars, intg, su, gen, schedVars, t_blocked, tabVars, J, u_dp, u_applied>>

\* lines 251-264
ReplayStep ==
  /\ pc = "replay"
  /\ k < N
  /\ LET c == <<i1, i2, i3>>
         u_ind == Lookup(U_opt[k + 1], c)
     IN /\ cost' = PlusInf(cost, stage_J[u_ind][c])
        /\ i1' = next_x1[u_ind][c]
        /\ i2' = next_x2[u_ind][c]
        /\ i3' = next_x3[u_ind][c]
        /\ u_opt' = Append(u_opt, IF u_ind # 0 THEN 1 ELSE 0)
  /\ x1_opt' = Append(x1_opt, GridVal(1, NX, i1'))
  /\ x2_opt' = Append(x2_opt, GridVal(2, NX, i2'))
  /\ x3_opt' = Append(x3_opt, GridVal(3, NX, i3'))
  /\ k' = k + 1
  /\ UNCHANGED <<inVars, intg, su, gen, schedVars, pc, t_blocked, tabVars, bwdVars, u_dp, u_applied>>

\* lines 275-277: u_dp[int(i * Nperday)] = u_opt[i]
Expand(u, npd, tf) ==
  [m \in 1..(tf * npd) |->
     IF (m - 1) % npd = 0 /\ (m - 1) \div npd < Len(u)
     THEN u[(m - 1) \div npd + 1] ELSE 0]

\* lines 278-279 (and pv_schedule lines 80-81): N = int(Tf * Nperday), dt
N_int == Tf * Nperday
dt == FRecip(Nperday)

\* integrate_nlp_sol, line 83: xf[5] * (1 - u_opt[u_idx] * max_fraction), for
\* an integer control u and rationals v and mf
Jump(v, u, mf) == [num |-> v.num * (mf.den - u * mf.num), den |-> v.den * mf.den]

\* integrate_nlp_sol, lines 66-70: the loop state before the first step
IntStart == [k |-> 0, u_idx |-> 0, applied |-> <<>>]

\* IntStep with a control index that never advances
IntStepNoAdvance(st, sol, arr) ==
  IF arr[st.k + 1] >= 1
  THEN [k |-> st.k + 1, u_idx |-> st.u_idx,
        applied |-> Append(st.applied, sol[st.u_idx + 1])]
  ELSE [k |-> st.k + 1, u_idx |-> st.u_idx, applied |-> Append(st.applied, 0)]

\* integrate_nlp_sol, lines 76-85: one pass of the loop over k, for
\* sol_is_u = True (u_opt = sol); applied collects the u handed to the
\* integrator
IntStep(st, sol, arr) ==
  IF arr[st.k + 1] >= 1                              \* allowed >= 1e-8
  THEN [k |-> st.k + 1,
        u_idx |-> IF st.u_idx < Len(sol) - 1 THEN st.u_idx + 1 ELSE st.u_idx,
        applied |-> Append(st.applied, sol[st.u_idx + 1])]
  ELSE [k |-> st.k + 1, u_idx |-> st.u_idx, applied |-> Append(st.applied, 0)]

\* integrate_nlp_sol, lines 73-85: for k in range(N)
RECURSIVE IntLoop(_, _, _, _)
IntLoop(st, sol, arr, n) ==
  IF st.k >= n THEN st ELSE IntLoop(IntStep(st, sol, arr), sol, arr, n)

integrate_nlp_sol(sol, arr, n) == IntLoop(IntStart, sol, arr, n)

\* lines 274-285: the expansion and the call
\*   integrate_nlp_sol(u_dp, x0, [1] * N_int, N_int, ..., sol_is_u=True);
\* the trajectories that call returns come from the CasADi integrator and
\* are not part of this model
ExpandControl ==
  /\ pc = "replay"
  /\ k >= N
  /\ u_dp' = Expand(u_opt, Nperday, Tf)
  /\ u_applied' = integrate_nlp_sol(u_dp', Ones(N_int), N_int).applied
  /\ pc' = "done"
  /\ UNCHANGED <<inVars, intg, su, gen, schedVars, t_blocked, tabVars, bwdVars, k, repVars>>

-----------------------------------------------------------------------------
(* integrate_nlp_sol(sol, x0, allowed_arr, N, ..., integrator_function_2,  *)
(*                   max_fraction, p_in, sol_is_u) called on its own.      *)
(* The trajectories are kept as their lengths; of each integration step    *)
(* the record keeps the control, the index it was read at (-1: the         *)
(* constant 0 of a non-allowed point) and the factor applied to x3.        *)

One == [num |-> 1, den |-> 1]

\* line 64: w1_opt[-num_controls:], a Python slice
LastN(w, n) ==
  IF n = 0 \/ n >= Len(w) THEN w ELSE SubSeq(w, Len(w) - n + 1, Len(w))

\* lines 58-70
IntgStart(sol, sol_is_u, two_stage, arr) ==
  [pc |-> "loop", sol_is_u |-> sol_is_u, two_stage |-> two_stage,
   u_opt |-> IF sol_is_u THEN sol ELSE LastN(sol, Len(SelectSeq(arr, LAMBDA a : a >= 1))),
   st |-> IntStart, used |-> <<>>, jump |-> <<>>,
   x_opt |-> 1, q_opt |-> 1, tgrid |-> Len(arr) + 1,
   ret |-> <<>>]

\* lines 77-98: one pass of the loop
IntgPass(g, arr, mf) ==
  LET allowed == arr[g.st.k + 1] >= 1
  IN IF allowed /\ g.st.u_idx >= Len(g.u_opt)
     THEN [g EXCEPT !.pc = "IndexError"]                  \* u_opt[u_idx]
     ELSE [g EXCEPT !.st = IntStep(g.st, g.u_opt, arr),
                    !.used = Append(g.used, IF allowed THEN g.st.u_idx ELSE -1),
                    !.jump = Append(g.jump, IF allowed
                                            THEN Jump(One, g.u_opt[g.st.u_idx + 1], mf)
                                            ELSE One),
                    !.x_opt = g.x_opt + 1,
                    !.q_opt = g.q_opt + 1]

\* lines 101-110: the 20 steps of the end point extension; w1_opt is bound
\* only when sol is the solution object
IntgSecond(g) ==
  IF g.sol_is_u THEN [g EXCEPT !.pc = "UnboundLocalError"]
  ELSE [g EXCEPT !.pc = "extended", !.x_opt = g.x_opt + 20, !.q_opt = g.q_opt + 20,
                 !.tgrid = g.tgrid + 20]

\* lines 113-114: x1_opt, x2_opt, x3_opt, q_opt, u_opt, tgrid
IntgRet(g) ==
  [g EXCEPT !.pc = "returned",
            !.ret = <<g.x_opt, g.x_opt, g.x_opt, g.q_opt, g.u_opt, g.tgrid>>]

\* what the callers of the repository pass as sol: the controls themselves
\* (sol_is_u), or the solution vector of the NLP, which ends with the scale
\* of the end point extension, if any, and one control per allowed point
IntgSols(sol_is_u, two_stage, arr, n) ==
  IF sol_is_u
  THEN UNION {[1..m -> {0, 1}] : m \in 0..n}
  ELSE {<<5, 5>> \o (IF two_stage THEN <<2>> ELSE <<>>) \o u :
          u \in [1..Len(SelectSeq(arr, LAMBDA a : a >= 1)) -> {0, 1}]}

IntgCall ==
  /\ intg.pc = "idle"
  /\ \E sol_is_u \in BOOLEAN, two_stage \in BOOLEAN :
       \E sol \in IntgSols(sol_is_u, two_stage, allowed_arr, N_int) :
         intg' = IntgStart(sol, sol_is_u, two_stage, allowed_arr)
  /\ UNCHANGED <<inVars, gen, dpVars, schedVars, su>>

IntgStep ==
  /\ intg.pc = "loop" /\ intg.st.k < N_int
  /\ intg' = IntgPass(intg, allowed_arr, max_fraction)
  /\ UNCHANGED <<inVars, gen, dpVars, schedVars, su>>

IntgExtend ==
  /\ intg.pc = "loop" /\ intg.st.k >= N_int /\ intg.two_stage
  /\ intg' = IntgSecond(intg)
  /\ UNCHANGED <<inVars, gen, dpVars, schedVars, su>>

IntgReturn ==
  /\ \/ intg.pc = "loop" /\ intg.st.k >= N_int /\ ~intg.two_stage
     \/ intg.pc = "extended"
  /\ intg' = IntgRet(intg)
  /\ UNCHANGED <<inVars, gen, dpVars, schedVars, su>>

-----------------------------------------------------------------------------
(* sumup(u_opt), src/Modules/Sumup/sumup_alg.py                            *)

SumIdle == [pc |-> "idle"]

\* lines 34-38
SumStart(u) ==
  [pc |-> "loop", u_opt |-> u, k |-> 0, w |-> FPos(FZero), u_sumup |-> [j \in 1..Len(u) |-> 0]]

\* line 40: u_opt[k] > epsilon
ExceedsEps(x) == FLess(EpsBelow, x)

\* lines 40-44: one pass of the loop
SumPass(g) ==
  LET x  == g.u_opt[g.k + 1]
      w1 == IF ExceedsEps(x) THEN FPlus(g.w, FThreeHalves(x)) ELSE g.w
      emit == ~w1.neg /\ FMag(w1) # FZero                       \* w > 0
  IN [g EXCEPT !.k = g.k + 1,
               !.w = IF emit THEN FMinusOne(w1) ELSE w1,
               !.u_sumup = IF emit THEN [g.u_sumup EXCEPT ![g.k + 1] = 1] ELSE g.u_sumup]

\* relaxed controls: 0, a value below epsilon (2^-17), 1./3, the double
\* 2^-53 above it, and 1
SumValues ==
  {FZero, [hi |-> 2^9, lo |-> 0], FRecip(3), FAdd(FRecip(3), [hi |-> 0, lo |-> 8]), FOne}

SumCall ==
  /\ su.pc = "idle"
  /\ \E n \in 0..MaxLenSum : \E u \in [1..n -> SumValues] : su' = SumStart(u)
  /\ UNCHANGED <<inVars, gen, dpVars, schedVars, intg>>

SumStep ==
  /\ su.pc = "loop" /\ su.k < Len(su.u_opt)
  /\ su' = SumPass(su)
  /\ UNCHANGED <<inVars, gen, dpVars, schedVars, intg>>

\* line 45
SumReturn ==
  /\ su.pc = "loop" /\ su.k >= Len(su.u_opt)
  /\ su' = [su EXCEPT !.pc = "returned"]
  /\ UNCHANGED <<inVars, gen, dpVars, schedVars, intg>>

-----------------------------------------------------------------------------
(* allowed_generator as a sequence of steps                                *)

GenCall ==
  /\ gen.pc = "idle"
  /\ gen' = GenStart
  /\ UNCHANGED <<inVars, intg, su, dpVars, schedVars>>

GenLoop ==
  /\ gen.pc = "loop"
  /\ gen' = GenStep(gen, Nperday, allowed_opts, N_int, dt)
  /\ UNCHANGED <<inVars, intg, su, dpVars, schedVars>>

-----------------------------------------------------------------------------
(* pv_heuristic_alg(Tf, N, x0, integrator_function, p_in, max_fraction,    *)
(*                  Base, allowed_arr)                                     *)
(*                                                                         *)
(* The integrator is not evaluated.  What the algorithm tests of a state   *)
(* it returns is its x3 component against 0.8*Base and 1.1*Base, so a      *)
(* state is kept as the level of x3: "low" (x3 <= 0.8*Base), "high"        *)
(* (x3 > 1.1*Base) or "mid"; every call may return any level.  q_opt grows *)
(* and shrinks with x_opt and is not kept.                                 *)

Levels == {"low", "mid", "high"}

\* line 99: the number of loop passes after which the search may give up
MinCount == 10

\* seq[j] of a Python list: j in [-len, len) is defined, anything else raises
InRange(seq, j) == -Len(seq) <= j /\ j < Len(seq)
Item(seq, j) == IF j >= 0 THEN seq[j + 1] ELSE seq[Len(seq) + j + 1]
SetItem(seq, j, v) ==
  IF j >= 0 THEN [seq EXCEPT ![j + 1] = v] ELSE [seq EXCEPT ![Len(seq) + j + 1] = v]
DelLast(seq) == SubSeq(seq, 1, Len(seq) - 1)

HeuIdle ==
  [pc |-> "idle", k |-> 0, count |-> 0, back_flag |-> FALSE,
   first_step_back |-> FALSE, x_opt |-> <<>>, x_opt_tmp |-> <<>>, u |-> <<>>,
   error_flag |-> -1, x_ret |-> <<>>, u_ret |-> <<>>]

\* lines 60-71
HeuStart(n) ==
  [HeuIdle EXCEPT !.pc = "loop", !.x_opt = <<"x0">>, !.u = [j \in 1..n |-> 0]]

\* lines 110 and 142: the controls of the allowed time points
RECURSIVE Keep(_, _)
Keep(u, arr) ==
  IF arr = <<>> THEN <<>>
  ELSE (IF Head(arr) >= 1 THEN <<Head(u)>> ELSE <<>>) \o Keep(Tail(u), Tail(arr))

Crash(h) == [h EXCEPT !.pc = "IndexError"]

\* line 75; the counter is only compared with MinCount
Count(h) == IF h.count < MinCount THEN h.count + 1 ELSE h.count

\* lines 77-94: a pass in forward mode, the integrator returning level lvl
Forward(h, lvl) ==
  IF h.x_opt = <<>> \/ ~InRange(h.u, h.k) THEN Crash(h)
  ELSE IF lvl = "high"
       THEN [h EXCEPT !.count = Count(h), !.back_flag = TRUE,
                      !.first_step_back = TRUE, !.x_opt_tmp = h.x_opt]
       ELSE [h EXCEPT !.count = Count(h), !.x_opt = Append(h.x_opt, lvl),
                      !.k = h.k + 1]

\* lines 99-112: the search gives up
GiveUp(h, arr, n) ==
  [h EXCEPT !.count = Count(h), !.pc = "returned", !.error_flag = 1,
            !.x_ret = h.x_opt_tmp \o [j \in 1..(n + 1 - Len(h.x_opt_tmp)) |-> "zero"],
            !.u_ret = Keep(h.u, arr)]

\* lines 96-136: a pass in backward mode, the integrator returning level lvl
Backward(h, arr, n, lvl) ==
  IF Count(h) >= MinCount /\ h.k <= 0 THEN GiveUp(h, arr, n)
  ELSE LET drop == h.k # 0 /\ ~h.first_step_back               \* line 115
           h1 == [h EXCEPT !.count = Count(h),
                           !.x_opt = IF drop THEN DelLast(h.x_opt) ELSE h.x_opt,
                           !.first_step_back = FALSE]
       IN IF drop /\ h.x_opt = <<>> THEN Crash(h)              \* del x_opt[-1]
          ELSE IF ~InRange(arr, h.k) THEN Crash(h)             \* allowed_arr[k]
          ELSE IF Item(arr, h.k) >= 1 /\ Item(h.u, h.k) = 0
               THEN IF h1.x_opt = <<>> THEN Crash(h)           \* x_opt[-1]
                    ELSE IF lvl # "low"                        \* > 0.8*Base
                         THEN [h1 EXCEPT !.back_flag = FALSE,
                                         !.u = SetItem(h.u, h.k, 1),
                                         !.x_opt = Append(h1.x_opt, lvl),
                                         !.k = h.k + 1]
                         ELSE [h1 EXCEPT !.k = h.k - 1]
               ELSE [h1 EXCEPT !.k = h.k - 1]

\* lines 138-145
Finish(h, arr) ==
  [h EXCEPT !.pc = "returned", !.error_flag = 0, !.x_ret = h.x_opt,
            !.u_ret = Keep(h.u, arr)]

HeuCall ==
  /\ heu.pc = "idle"
  /\ sched.pc \in {"direct", "heuristic"}
  /\ heu' = HeuStart(N_int)
  /\ UNCHANGED <<inVars, intg, su, gen, dpVars, allowed_arr, sched>>

HeuForward ==
  /\ heu.pc = "loop" /\ heu.k < N_int /\ ~heu.back_flag
  /\ \E lvl \in Levels : heu' = Forward(heu, lvl)
  /\ UNCHANGED <<inVars, intg, su, gen, dpVars, allowed_arr, sched>>

HeuBackward ==
  /\ heu.pc = "loop" /\ heu.k < N_int /\ heu.back_flag
  /\ \E lvl \in Levels : heu' = Backward(heu, allowed_arr, N_int, lvl)
  /\ UNCHANGED <<inVars, intg, su, gen, dpVars, allowed_arr, sched>>

HeuFinish ==
  /\ heu.pc = "loop" /\ heu.k >= N_int
  /\ heu' = Finish(heu, allowed_arr)
  /\ UNCHANGED <<inVars, intg, su, gen, dpVars, allowed_arr, sched>>

-----------------------------------------------------------------------------
(* pv_schedule(Tf, Nperday, x0, B, pv_lambda, p_in, patient_volume,        *)
(*             dict_opts)                                                  *)
(*                                                                         *)
(* dict_opts is allowed_opts, with the further key "objective".  The       *)
(* nonlinear programme (nlp_builder, the CasADi solver) is not evaluated:  *)
(* the solver returns an object "sol" and some control for every allowed   *)
(* point.  A trajectory of the nonlinear programme is kept as its length.  *)

SchedRec(at) ==
  [pc |-> at, objective |-> "", max_fraction |-> [num |-> 0, den |-> 1], ret |-> <<>>]

\* lines 83-88
MaxFraction(opts, vol) ==
  [num |-> IF "max_treatment_volume" \in DOMAIN opts
           THEN opts["max_treatment_volume"] ELSE 500,
   den |-> vol]

\* lines 92-95
SchedAllowed(npd, opts, n, step) ==
  IF \/ "allowed_days" \in DOMAIN opts
     \/ "allowed_hours" \in DOMAIN opts
     \/ "forbidden_days" \in DOMAIN opts
  THEN allowed_generator(npd, opts, n, step)
  ELSE Ones(n)

\* Objective that knows no heuristic
ObjectiveNoHeuristic(opts) ==
  IF "objective" \in DOMAIN opts /\ opts["objective"] = "integer_end_point"
  THEN "integer_end_point"
  ELSE "relaxed_int_u"

\* lines 104-109
Objective(opts) ==
  IF "objective" \in DOMAIN opts /\ opts["objective"] = "integer_end_point"
  THEN "integer_end_point"
  ELSE IF "objective" \in DOMAIN opts /\ opts["objective"] = "heuristic"
       THEN "heuristic"
       ELSE "relaxed_int_u"

\* lines 78-118
SchedCall ==
  /\ sched.pc = "idle"
  /\ allowed_arr' = SchedAllowed(Nperday, allowed_opts, N_int, dt)
  /\ sched' = [sched EXCEPT
                 !.objective = Objective(allowed_opts),
                 !.max_fraction = MaxFraction(allowed_opts, patient_volume),
                 !.pc = IF Objective(allowed_opts) = "heuristic"
                        THEN "heuristic" ELSE "nlp"]
  /\ UNCHANGED <<inVars, intg, su, gen, dpVars, heu>>

\* tgrid = [Tf/N*k for k in range(N+1)], kept as the list of the k
TimeGrid(n) == [j \in 1..(n + 1) |-> j - 1]

\* RetHeuristic with the error flag of the other methods
RetHeuristicFlagZero(h, arr, n) ==
  <<h.x_ret, h.x_ret, h.x_ret, Len(h.x_ret), h.u_ret, TimeGrid(n), "{}", arr, 0>>

\* line 119: what pv_schedule returns for the heuristic
RetHeuristic(h, arr, n) ==
  <<h.x_ret, h.x_ret, h.x_ret, Len(h.x_ret), h.u_ret, TimeGrid(n), "{}", arr,
    h.error_flag>>

\* lines 118-119; an exception of pv_heuristic_alg ends pv_schedule as well
SchedHeuristicReturn ==
  /\ sched.pc = "heuristic"
  /\ heu.pc \in {"returned", "IndexError"}
  /\ sched' = IF heu.pc = "returned"
              THEN [sched EXCEPT !.pc = "returned",
                                 !.ret = RetHeuristic(heu, allowed_arr, N_int)]
              ELSE [sched EXCEPT !.pc = "IndexError"]
  /\ UNCHANGED <<inVars, intg, su, gen, dpVars, allowed_arr, heu>>

\* integrate_nlp_sol lines 101-110: 20 further points for integer_end_point
NlpPoints(objective, n) == IF objective = "integer_end_point" THEN n + 21 ELSE n + 1

\* line 153: what pv_schedule returns for the two NLP objectives
RetNlp(objective, arr, n, u) ==
  <<NlpPoints(objective, n), NlpPoints(objective, n), NlpPoints(objective, n),
    NlpPoints(objective, n), u, NlpPoints(objective, n), "sol", arr, 0>>

\* integrate_nlp_sol lines 62-64: one control for every allowed point
NumControls(arr) == Len(SelectSeq(arr, LAMBDA a : a >= 1))

\* lines 120-153
SchedNlp ==
  /\ sched.pc = "nlp"
  /\ \E u \in [1..NumControls(allowed_arr) -> {0, 1}] :
       sched' = [sched EXCEPT !.pc = "returned",
                              !.ret = RetNlp(sched.objective, allowed_arr, N_int, u)]
  /\ UNCHANGED <<inVars, intg, su, gen, dpVars, allowed_arr, heu>>

-----------------------------------------------------------------------------
(* Inputs                                                                  *)

Opt(S) == {[has |-> FALSE, v |-> <<>>]} \cup {[has |-> TRUE, v |-> m] : m \in S}

MkOpts(h, d, f) ==
  LET keys == (IF h.has THEN {"allowed_hours"} ELSE {})
              \cup (IF d.has THEN {"allowed_days"} ELSE {})
              \cup (IF f.has THEN {"forbidden_days"} ELSE {})
  IN [key \in keys |-> CASE key = "allowed_hours"  -> h.v
                         [] key = "allowed_days"   -> d.v
                         [] key = "forbidden_days" -> f.v]

HourMasks(npd) == {Ones(npd), [Ones(npd) EXCEPT ![1] = 0], [j \in 1..npd |-> IF j = 1 THEN 1 ELSE 0]}
DayMasks == {Ones(7), <<1, 1, 1, 1, 1, 0, 0>>, <<1, 0, 2, 1, 1, 1, 1>>}
ForbiddenLists == {<<>>, <<RangeDays(1, 3)>>, <<IntDay(2)>>, <<RangeDays(0, 1), RangeDays(2, 3)>>,
                   <<IntDay(4), RangeDays(0, 2)>>}

NoTable == <<>>

DpIdle ==
  /\ t_blocked = <<>>
  /\ X1_before_shift = NoTable /\ X2_before_shift = NoTable
  /\ X3_before_shift = NoTable /\ Q_before_shift = NoTable
  /\ next_x1 = NoTable /\ next_x2 = NoTable /\ next_x3 = NoTable
  /\ stage_J = NoTable
  /\ J = NoTable /\ U_opt = <<>> /\ k = 0
  /\ i1 = 0 /\ i2 = 0 /\ i3 = 0 /\ cost = 0
  /\ u_opt = <<>> /\ x1_opt = <<>> /\ x2_opt = <<>> /\ x3_opt = <<>>
  /\ u_dp = <<>>
  /\ u_applied = <<>>

\* integrate_nlp_sol not called
IntIdle == [pc |-> "idle"]

\* pv_schedule and pv_heuristic_alg not called
SchedIdle ==
  /\ allowed_arr = <<>>
  /\ heu = HeuIdle
  /\ sched = SchedRec("idle")

\* an initial state: a grid point moved off by off sub-cells in x3
StartValue(nx, c, off) ==
  <<GridVal(1, nx, c[1]), GridVal(2, nx, c[2]),
    [num |-> linspace(3, nx, c[3]) + off * SubW(3, nx), den |-> ValDen(nx)]>>

\* the calendar options of the solver runs, for two integration points per
\* day; the last two make line 75 and line 82 raise
DpCalendars ==
  LET hrs(v) == [has |-> TRUE, v |-> v]
      no     == [has |-> FALSE, v |-> <<>>]
      week   == [has |-> TRUE, v |-> Ones(7)]
      odd    == [has |-> TRUE, v |-> <<1, 0, 2, 1, 1, 1, 1>>]
      away   == [has |-> TRUE, v |-> <<RangeDays(0, 1), RangeDays(2, 3)>>]
      single == [has |-> TRUE, v |-> <<IntDay(2)>>]
  IN {MkOpts(hrs(<<1, 1>>), week, no),
      MkOpts(hrs(<<0, 1>>), week, away),
      MkOpts(hrs(<<1, 1>>), odd, no),
      MkOpts(no, odd, away),
      MkOpts(hrs(<<1, 1>>), no, no),
      MkOpts(no, week, single)}

\* what the integration does to a grid point over one day, in sub-cells:
\* x3 grows by 0..MaxDrift, and in one case x1 falls by more than a cell
DynCases ==
  {[g1 |-> 0, g2 |-> 0, g3 |-> j] : j \in 0..MaxDrift}
    \cup {[g1 |-> -(SubCells + 1), g2 |-> 0, g3 |-> MaxDrift]}

Init ==
  /\ Tf \in 1..MaxTf
  /\ Nperday = 2
  /\ allowed_opts \in DpCalendars
  /\ \E sh \in {-1} \cup (1..(SubCells - 1)) :                  \* -1: no p_shift
       dp_options = IF sh >= 0 THEN [NX |-> MaxNX, NU |-> 2, p_shift |-> sh]
                    ELSE [NX |-> MaxNX, NU |-> 2]
  /\ Base = 100
  /\ dyn \in DynCases
  /\ \/ patient_volume = 2500
     \/ patient_volume = 5000 /\ "p_shift" \notin DOMAIN dp_options /\ dyn.g1 = 0
  /\ max_fraction = [num |-> 500, den |-> patient_volume]
  /\ \E c \in Cells(NX), off \in {0, 1} :
       /\ c[1] = c[2]
       /\ c[1] \in {0, NX - 1}
       /\ c[3] + off <= NX - 1
       /\ x0 = StartValue(NX, c, off)
  /\ gen = GenIdle
  /\ intg = IntIdle
  /\ su = SumIdle
  /\ pc = "start"
  /\ DpIdle
  /\ SchedIdle

Next ==
  \/ Calendar
  \/ IntegrateAll
  \/ RoundAll
  \/ BackwardStage
  \/ StartReplay
  \/ ReplayStep
  \/ ExpandControl

Spec == Init /\ [][Next]_vars

\* the calendar alone: allowed_generator and lines 72-82 of dynamic_prog_pv
InitCal ==
  /\ Tf \in 1..MaxTfCal
  /\ Nperday \in 1..MaxNperday
  /\ \E h \in Opt(HourMasks(Nperday)), d \in Opt(DayMasks), f \in Opt(ForbiddenLists) :
       allowed_opts = MkOpts(h, d, f)
  /\ dp_options = [NX |-> 2, NU |-> 2]
  /\ Base = 100
  /\ patient_volume = 5000
  /\ max_fraction = [num |-> 500, den |-> patient_volume]
  /\ dyn = [g1 |-> 0, g2 |-> 0, g3 |-> 0]
  /\ x0 = StartValue(2, <<0, 0, 0>>, 0)
  /\ gen = GenIdle
  /\ intg = IntIdle
  /\ su = SumIdle
  /\ pc = "start"
  /\ DpIdle
  /\ SchedIdle

NextCal ==
  \/ Calendar
  \/ GenCall
  \/ GenLoop

SpecCal == InitCal /\ [][NextCal]_vars

\* dynamic_prog_pv called with calendar masks of the expected and of other
\* lengths, for two integration points per day
CfgCalendars ==
  LET hrs(v)  == [has |-> TRUE, v |-> v]
      days(v) == [has |-> TRUE, v |-> v]
      no      == [has |-> FALSE, v |-> <<>>]
  IN {MkOpts(hrs(<<1, 1>>), days(Ones(7)), no),
      MkOpts(hrs(<<1, 1>>), days(<<1, 1, 1, 1, 1, 0, 0>>), no),
      MkOpts(hrs(<<1, 1>>), days(Ones(8)), no),
      MkOpts(hrs(<<1, 1>>), days(<<1, 0, 1>>), no),
      MkOpts(hrs(<<1>>), days(Ones(7)), no),
      MkOpts(hrs(<<1, 0, 1>>), days(<<1, 1, 1, 1, 1, 0, 0>>), no)}

InitCfg ==
  /\ Tf \in 1..MaxTf
  /\ Nperday = 2
  /\ allowed_opts \in CfgCalendars
  /\ dp_options = [NX |-> MaxNX, NU |-> 2]
  /\ Base = 100
  /\ patient_volume = 2500
  /\ max_fraction = [num |-> 500, den |-> patient_volume]
  /\ dyn \in [g1 : {0}, g2 : {0}, g3 : 0..MaxDrift]
  /\ \E c3 \in 0..(NX - 1) : x0 = StartValue(NX, <<0, 0, c3>>, 0)
  /\ gen = GenIdle
  /\ intg = IntIdle
  /\ su = SumIdle
  /\ pc = "start"
  /\ DpIdle
  /\ SchedIdle

SpecCfg == InitCfg /\ [][Next]_vars

\* dynamic_prog_pv called with two and with three control levels
InitLevels ==
  /\ Tf \in 1..MaxTf
  /\ Nperday = 2
  /\ allowed_opts = MkOpts([has |-> TRUE, v |-> <<1, 1>>], [has |-> TRUE, v |-> Ones(7)],
                           [has |-> FALSE, v |-> <<>>])
  /\ \E nu \in {2, 3} : dp_options = [NX |-> MaxNX, NU |-> nu]
  /\ Base = 100
  /\ patient_volume = 2500
  /\ max_fraction = [num |-> 500, den |-> patient_volume]
  /\ dyn \in DynCases
  /\ \E c3 \in 0..(NX - 1) : x0 = StartValue(NX, <<0, 0, c3>>, 0)
  /\ gen = GenIdle
  /\ intg = IntIdle
  /\ su = SumIdle
  /\ pc = "start"
  /\ DpIdle
  /\ SchedIdle

SpecLevels == InitLevels /\ [][Next]_vars

\* dynamic_prog_pv called with the default and with a smaller maximal
\* treatment volume: max_fraction = max_donation_volume / patient_volume
InitFraction ==
  /\ Tf \in 1..MaxTf
  /\ Nperday = 2
  /\ allowed_opts = MkOpts([has |-> TRUE, v |-> <<1, 1>>], [has |-> TRUE, v |-> Ones(7)],
                           [has |-> FALSE, v |-> <<>>])
  /\ dp_options = [NX |-> MaxNX, NU |-> 2]
  /\ Base = 100
  /\ patient_volume = 2500
  /\ \E vol \in {250, 500} : max_fraction = [num |-> vol, den |-> patient_volume]
  /\ dyn \in DynCases
  /\ \E c3 \in 0..(NX - 1) : x0 = StartValue(NX, <<0, 0, c3>>, 0)
  /\ gen = GenIdle
  /\ intg = IntIdle
  /\ su = SumIdle
  /\ pc = "start"
  /\ DpIdle
  /\ SchedIdle

SpecFraction == InitFraction /\ [][Next]_vars

\* integrate_nlp_sol called with any allowed_arr of length N
InitIntg ==
  /\ Tf \in 1..MaxNInt
  /\ Nperday = 1
  /\ allowed_opts = MkOpts([has |-> FALSE, v |-> <<>>], [has |-> FALSE, v |-> <<>>],
                           [has |-> FALSE, v |-> <<>>])
  /\ dp_options = [NX |-> 2, NU |-> 2]
  /\ Base = 100
  /\ patient_volume = 5000
  /\ max_fraction = [num |-> 500, den |-> patient_volume]
  /\ dyn = [g1 |-> 0, g2 |-> 0, g3 |-> 0]
  /\ x0 = StartValue(2, <<0, 0, 0>>, 0)
  /\ gen = GenIdle
  /\ intg = IntIdle
  /\ su = SumIdle
  /\ pc = "start"
  /\ DpIdle
  /\ allowed_arr \in [1..N_int -> {0, 1}]
  /\ heu = HeuIdle
  /\ sched = SchedRec("idle")

NextIntg ==
  \/ IntgCall
  \/ IntgStep
  \/ IntgExtend
  \/ IntgReturn

SpecIntg == InitIntg /\ [][NextIntg]_vars

\* sumup called on its own
InitSum ==
  /\ Tf = 1
  /\ Nperday = 1
  /\ allowed_opts = MkOpts([has |-> FALSE, v |-> <<>>], [has |-> FALSE, v |-> <<>>],
                           [has |-> FALSE, v |-> <<>>])
  /\ dp_options = [NX |-> 2, NU |-> 2]
  /\ Base = 100
  /\ patient_volume = 5000
  /\ max_fraction = [num |-> 500, den |-> patient_volume]
  /\ dyn = [g1 |-> 0, g2 |-> 0, g3 |-> 0]
  /\ x0 = StartValue(2, <<0, 0, 0>>, 0)
  /\ gen = GenIdle
  /\ intg = IntIdle
  /\ su = SumIdle
  /\ pc = "start"
  /\ DpIdle
  /\ SchedIdle

NextSum ==
  \/ SumCall
  \/ SumStep
  \/ SumReturn

SpecSum == InitSum /\ [][NextSum]_vars

\* pv_heuristic_alg called with any allowed_arr of length N
InitHeu ==
  /\ Tf \in 1..MaxNHeu
  /\ Nperday = 1
  /\ allowed_opts = MkOpts([has |-> FALSE, v |-> <<>>], [has |-> FALSE, v |-> <<>>],
                           [has |-> FALSE, v |-> <<>>])
  /\ dp_options = [NX |-> 2, NU |-> 2]
  /\ Base = 100
  /\ patient_volume = 5000
  /\ max_fraction = [num |-> 500, den |-> patient_volume]
  /\ dyn = [g1 |-> 0, g2 |-> 0, g3 |-> 0]
  /\ x0 = StartValue(2, <<0, 0, 0>>, 0)
  /\ gen = GenIdle
  /\ intg = IntIdle
  /\ su = SumIdle
  /\ pc = "start"
  /\ DpIdle
  /\ allowed_arr \in [1..N_int -> {0, 1}]
  /\ heu = HeuIdle
  /\ sched = SchedRec("direct")

NextHeu ==
  \/ HeuCall
  \/ HeuForward
  \/ HeuBackward
  \/ HeuFinish

SpecHeu == InitHeu /\ [][NextHeu]_vars

\* the interpreter runs the call to its end
SpecHeuFair == InitHeu /\ [][NextHeu]_vars /\ WF_vars(NextHeu)

\* dict_opts with the key "objective" (o = "" for a dict without it)
WithObjective(opts, o) ==
  IF o = "" THEN opts
  ELSE [key \in DOMAIN opts \cup {"objective"} |->
          IF key = "objective" THEN o ELSE opts[key]]

Objectives == {"", "heuristic", "relaxed_int_u", "integer_end_point", "fast"}

\* pv_schedule called with and without calendar options
InitSched ==
  /\ Tf \in 1..MaxTfSched
  /\ Nperday \in {1, 2}
  /\ \E h \in Opt({[j \in 1..Nperday |-> IF j = 1 THEN 1 ELSE 0]}),
        d \in Opt({<<1, 0, 1, 1, 1, 0, 0>>}),
        f \in Opt({<<RangeDays(0, 1)>>}),
        o \in Objectives :
       allowed_opts = WithObjective(MkOpts(h, d, f), o)
  /\ dp_options = [NX |-> 2, NU |-> 2]
  /\ Base = 100
  /\ patient_volume = 5000
  /\ max_fraction = [num |-> 500, den |-> patient_volume]
  /\ dyn = [g1 |-> 0, g2 |-> 0, g3 |-> 0]
  /\ x0 = StartValue(2, <<0, 0, 0>>, 0)
  /\ gen = GenIdle
  /\ intg = IntIdle
  /\ su = SumIdle
  /\ pc = "start"
  /\ DpIdle
  /\ SchedIdle

NextSched ==
  \/ SchedCall
  \/ HeuCall
  \/ HeuForward
  \/ HeuBackward
  \/ HeuFinish
  \/ SchedHeuristicReturn
  \/ SchedNlp

SpecSched == InitSched /\ [][NextSched]_vars

-----------------------------------------------------------------------------
(* Reference computations used to state the properties                     *)

TableReady == pc \in {"backward", "replay", "done"}
Replayed   == pc \in {"replay", "done"}

\* the grid cell the replay starts from (lines 247-249)
StartCell == <<RoundIdx(x0[1], 1, NX, 0), RoundIdx(x0[2], 2, NX, 0),
               RoundIdx(x0[3], 3, NX, 0)>>

IsBlocked(kk) == kk \in Range(t_blocked)

\* total stage cost of applying the controls us[1], us[2], ... from cell c
RECURSIVE PathCost(_, _)
PathCost(c, us) ==
  IF us = <<>> THEN 0
  ELSE LET u == Head(us)
       IN PlusInf(stage_J[u][c],
                  PathCost(<<next_x1[u][c], next_x2[u][c], next_x3[u][c]>>, Tail(us)))

\* the control sequences that use control 0 at every blocked stage
Admissible ==
  {us \in [1..N -> {0, 1}] : \A kk \in 0..(N-1) : IsBlocked(kk) => us[kk + 1] = 0}

LeqInf(a, b) == b = inf \/ (a # inf /\ a <= b)

BruteMin ==
  LET costs == {PathCost(StartCell, us) : us \in Admissible}
  IN CHOOSE m \in costs : \A x \in costs : LeqInf(m, x)

\* a dense backward induction that keeps one boolean tensor per stage:
\* DenseDP[kk] holds the cost-to-go V and the decision tensor pol of stage kk
DenseDP ==
  LET D[kk \in 0..N] ==
        IF kk = N
        THEN [V |-> [c \in Cells(NX) |-> 0], pol |-> [c \in Cells(NX) |-> FALSE]]
        ELSE LET W == D[kk + 1].V
                 cand(u, c) ==
                   PlusInf(stage_J[u][c],
                           W[<<next_x1[u][c], next_x2[u][c], next_x3[u][c]>>])
                 take1(c) == ~IsBlocked(kk) /\ LessInf(cand(1, c), cand(0, c))
             IN [V   |-> [c \in Cells(NX) |->
                            IF take1(c) THEN cand(1, c) ELSE cand(0, c)],
                 pol |-> [c \in Cells(NX) |-> take1(c)]]
  IN D

-----------------------------------------------------------------------------
(* Properties                                                              *)

\* C1: when dynamic_prog_pv has replayed its policy, the control sequence
\* u_opt uses control 0 at every blocked stage and its total stage cost from
\* the start cell, which is the accumulated cost, equals the minimum over all
\* control sequences in {0,1}^N that use control 0 at every blocked stage.
C1_ReplayIsArgmin ==
  pc = "done" =>
    /\ u_opt \in Admissible
    /\ PathCost(StartCell, u_opt) = BruteMin
    /\ cost = BruteMin

\* a finished run in which treating was necessary: the all-zero sequence has
\* infinite cost and the optimum is finite
C1_Witness ==
  /\ pc = "done"
  /\ N >= 2
  /\ PathCost(StartCell, [j \in 1..N |-> 0]) = inf
  /\ cost # inf
  /\ \E us \in Admissible : PathCost(StartCell, us) # inf /\ PathCost(StartCell, us) > cost

\* C2: the policy stored for a blocked stage is control 0 at every grid cell,
\* and the control the replay emits at a blocked stage is 0.
C2_BlockedStageIsZero ==
  /\ pc = "backward" =>
       \A kk \in (k + 1)..(N - 1) : IsBlocked(kk) => U_opt[N - kk] = {}
  /\ Replayed =>
       \A kk \in 0..(N - 1) :
         IsBlocked(kk) =>
           /\ \A c \in Cells(NX) : Lookup(U_opt[kk + 1], c) = 0
           /\ kk < Len(u_opt) => u_opt[kk + 1] = 0

\* a finished run with a blocked stage at which treating would have been
\* chosen had the stage been free, and a free stage at which it was chosen
C2_Witness ==
  /\ pc = "done"
  /\ \E kk \in 0..(N - 1) :
       /\ IsBlocked(kk)
       /\ u_opt[kk + 1] = 0
       /\ \E c \in Cells(NX) :
            Stage(<<0, 1>>, DenseDP[kk + 1].V, next_x1, next_x2, next_x3, stage_J).u_prev[c]
  /\ \E kk \in 0..(N - 1) : u_opt[kk + 1] = 1

\* C3: the admissible control set of stage k is <<0>> when k is blocked and
\* <<0, 1>> otherwise, where k in [0, N) is blocked iff the allowed_days entry
\* of weekday k mod 7 is not 1 or k lies in one of the forbidden_days ranges;
\* allowed_days = [1,1,1,1,1,0,0] without forbidden days blocks exactly the
\* stages with k mod 7 in {5, 6}.
C3_CalendarBlocked(kk) ==
  \/ allowed_opts["allowed_days"][(kk % 7) + 1] # 1
  \/ /\ "forbidden_days" \in DOMAIN allowed_opts
     /\ \E j \in 1..Len(allowed_opts["forbidden_days"]) :
          /\ allowed_opts["forbidden_days"][j].start <= kk
          /\ kk < allowed_opts["forbidden_days"][j].stop

C3_AdmissibleSet ==
  pc = "integrate" =>
    /\ \A kk \in 0..(N - 1) :
         U_feas(kk, t_blocked) = IF C3_CalendarBlocked(kk) THEN <<0>> ELSE <<0, 1>>
    /\ (allowed_opts["allowed_days"] = <<1, 1, 1, 1, 1, 0, 0>>
        /\ "forbidden_days" \notin DOMAIN allowed_opts)
         => {kk \in 0..(N - 1) : U_feas(kk, t_blocked) = <<0>>}
              = {kk \in 0..(N - 1) : kk % 7 \in {5, 6}}

\* two weeks under the working-week mask: 5, 6, 12 and 13 are blocked
C3_Witness ==
  /\ pc = "integrate"
  /\ N = 14
  /\ allowed_opts["allowed_days"] = <<1, 1, 1, 1, 1, 0, 0>>
  /\ "forbidden_days" \notin DOMAIN allowed_opts
  /\ {kk \in 0..(N - 1) : U_feas(kk, t_blocked) = <<0>>} = {5, 6, 12, 13}

\* C4: allowed_generator(Nperday, dict_opts, N, 1/Nperday) returns a list of
\* length N whose entry k is 1 iff allowed_hours[k mod Nperday] > 0 and
\* allowed_days[(k div Nperday) mod 7] > 0 and the day k div Nperday is not in
\* forbidden_days, with all-allowed defaults for missing options.
C4_GeneratorByDay ==
  gen.pc = "done" =>
    /\ Len(gen.allowed_arr) = N_int
    /\ \A kk \in 0..(N_int - 1) :
         gen.allowed_arr[kk + 1] =
           IF /\ GenHours(Nperday, allowed_opts)[(kk % Nperday) + 1] > 0
              /\ GenDays(allowed_opts)[((kk \div Nperday) % 7) + 1] > 0
              /\ (kk \div Nperday) \notin GenForbidden(allowed_opts)
           THEN 1 ELSE 0

\* C5: every nonzero entry of u_dp lies at an integration point that
\* allowed_generator marks as allowed for the same options and Nperday.
C5_ScheduleRespectsCalendar ==
  pc = "done" =>
    \A m \in 1..Len(u_dp) :
      u_dp[m] # 0 => allowed_generator(Nperday, allowed_opts, N_int, dt)[m] = 1

\* the index the rounding rule gives an entry of the transition table,
\* before the out-of-bounds treatment
Rounded(dim, u, c) ==
  CASE dim = 1 -> RoundIdx(X1_before_shift[u][c], 1, NX, p_shift)
    [] dim = 2 -> RoundIdx(X2_before_shift[u][c], 2, NX, p_shift)
    [] dim = 3 -> RoundIdx(X3_before_shift[u][c], 3, NX, p_shift)

NextIdx(dim, u, c) ==
  CASE dim = 1 -> next_x1[u][c] [] dim = 2 -> next_x2[u][c] [] dim = 3 -> next_x3[u][c]

\* C6: once the transition table is built every stored destination index
\* lies in [0, NX); a coordinate whose rounded index was outside [0, NX) has
\* index 0 and the entry has stage cost +infinity; the cell of the replay
\* stays in the grid at every stage.
C6_IndicesInGrid ==
  /\ TableReady =>
       \A u \in 0..1 : \A c \in Cells(NX) : \A dim \in 1..3 :
         /\ NextIdx(dim, u, c) \in 0..(NX - 1)
         /\ OutOfGrid(Rounded(dim, u, c), NX) =>
              NextIdx(dim, u, c) = 0 /\ stage_J[u][c] = inf
  /\ Replayed => <<i1, i2, i3>> \in Cells(NX)

\* a finished run whose table has an index rounded below 0, an index rounded
\* to NX or more at a cell away from the sentinel, and whose replay went
\* through an infeasible entry
C6_Witness ==
  /\ pc = "done"
  /\ \E u \in 0..1 : \E c \in Cells(NX) : Rounded(1, u, c) < 0
  /\ \E u \in 0..1 : \E c \in Cells(NX) :
       Rounded(3, u, c) >= NX /\ c[3] # 0 /\ next_x3[u][c] = 0
  /\ cost = inf

\* value num/den below tick[0] or above tick[NX-1] of its dimension
OutsideDomain(v, dim) ==
  \/ v.num * ValDen(NX) < LoNum(dim, NX) * v.den
  \/ v.num * ValDen(NX) > HiNum(dim, NX) * v.den

\* C7: an entry whose continuous successor lies outside the grid's domain in
\* some coordinate has stage cost +infinity, for every rounding shift.
C7_OutsideDomainIsInfeasible ==
  TableReady =>
    \A u \in 0..1 : \A c \in Cells(NX) :
      (\/ OutsideDomain(X1_before_shift[u][c], 1)
       \/ OutsideDomain(X2_before_shift[u][c], 2)
       \/ OutsideDomain(X3_before_shift[u][c], 3))
        => stage_J[u][c] = inf

\* C8: in a backward-induction stage, a cell at which the candidates of
\* control 0 and control 1 are equal (both +infinity included) is recorded
\* with control 0; control 1 is recorded only where its candidate is
\* strictly smaller.
C8_Cand(u, c) ==
  PlusInf(J[<<next_x1[u][c], next_x2[u][c], next_x3[u][c]>>], stage_J[u][c])

C8_TiesGoToZero ==
  [][BackwardStage =>
       \A c \in Cells(NX) :
         /\ C8_Cand(0, c) = C8_Cand(1, c) => Lookup(U_opt'[Len(U_opt')], c) = 0
         /\ Lookup(U_opt'[Len(U_opt')], c) = 1 =>
              LessInf(C8_Cand(1, c), C8_Cand(0, c))]_vars

\* a free stage has just been processed in which one cell had two equal
\* finite candidates and was recorded with control 0, and another cell took
\* control 1
C8_Witness ==
  /\ pc = "backward"
  /\ k < N - 1
  /\ ~IsBlocked(k + 1)
  /\ LET W == DenseDP[k + 2].V
         cand(u, c) ==
           PlusInf(W[<<next_x1[u][c], next_x2[u][c], next_x3[u][c]>>], stage_J[u][c])
         pol == U_opt[Len(U_opt)]
     IN /\ \E c \in Cells(NX) : cand(0, c) = cand(1, c) /\ cand(0, c) # inf /\ c \notin pol
        /\ pol # {}

\* C9: with shift 0 the rounding rule maps the value of tick i of every
\* dimension to i; an initial state on a grid point starts the replay in the
\* cell of that grid point.
C9_TickRoundTrip ==
  /\ \A dim \in 1..3 : \A i \in 0..(NX - 1) :
       RoundIdx(GridVal(dim, NX, i), dim, NX, 0) = i
  /\ (pc = "replay" /\ k = 0) =>
       \A c \in Cells(NX) : x0 = StartValue(NX, c, 0) => <<i1, i2, i3>> = c

\* the replay has been started from the last tick of every dimension
C9_Witness ==
  /\ pc = "replay"
  /\ k = 0
  /\ x0 = StartValue(NX, <<NX - 1, NX - 1, NX - 1>>, 0)
  /\ <<i1, i2, i3>> = <<NX - 1, NX - 1, NX - 1>>

\* C10: for every stage k and cell c the lookup in the sparse policy
\* U_opt[k] that the replay uses gives the control of the dense boolean
\* tensor of stage k of a dense backward induction on the same tables and
\* blocked stages.
C10_SparseEqualsDense ==
  Replayed =>
    /\ Len(U_opt) = N
    /\ \A kk \in 0..(N - 1) : \A c \in Cells(NX) :
         Lookup(U_opt[kk + 1], c) = IF DenseDP[kk].pol[c] THEN 1 ELSE 0

\* a finished run whose policies differ between two stages and treat somewhere
C10_Witness ==
  /\ pc = "done"
  /\ \E kk \in 0..(N - 1) : \E c \in Cells(NX) : DenseDP[kk].pol[c]
  /\ \E ka, kb \in 1..N : U_opt[ka] # U_opt[kb]


\* the value v is the tick value of some grid cell of dimension dim
IsTick(v, dim) ==
  \E i \in 0..(NX - 1) : v.num * ValDen(NX) = linspace(dim, NX, i) * v.den

\* C11: when the replay of dynamic_prog_pv has run its N steps, u_opt has
\* length N and x1_opt, x2_opt, x3_opt have length N+1, and every element of
\* the three state sequences, the first one included, is the tick value of a
\* grid cell.
C11_ReplayIsQuantized ==
  pc = "done" =>
    /\ Len(u_opt) = N
    /\ Len(x1_opt) = N + 1 /\ Len(x2_opt) = N + 1 /\ Len(x3_opt) = N + 1
    /\ \A j \in 1..(N + 1) :
         IsTick(x1_opt[j], 1) /\ IsTick(x2_opt[j], 2) /\ IsTick(x3_opt[j], 3)


\* C12: when the start cell has infinite cost-to-go at stage 0, the finished
\* replay of dynamic_prog_pv has chosen control 0 at every one of the N
\* stages and its accumulated cost is infinite.
C12_InfeasibleStartAllZero ==
  (pc = "done" /\ J[StartCell] = inf) =>
    /\ \A kk \in 1..N : u_opt[kk] = 0
    /\ cost = inf


\* the configuration the documentation of dynamic_prog_pv and of
\* allowed_generator asks for
ValidConfig ==
  /\ Tf > 0 /\ NX > 0 /\ NU > 0
  /\ "allowed_days" \in DOMAIN allowed_opts => Len(allowed_opts["allowed_days"]) = 7
  /\ "allowed_hours" \in DOMAIN allowed_opts
       => Len(allowed_opts["allowed_hours"]) = Nperday

\* C13: a call of dynamic_prog_pv whose horizon, NX or NU is not positive or
\* whose allowed_days mask has not 7 entries (allowed_hours: Nperday entries)
\* fails at the start of the solve: it never gets to building a table, to the
\* backward sweep or to a result.
C13_InvalidConfigRejected ==
  ~ValidConfig => pc \in {"start", "error"}


\* C14: when dynamic_prog_pv has expanded the replayed controls and
\* re-integrated them, u_dp has Tf*Nperday entries, its entry i*Nperday is
\* u_opt[i] for every stage i in [0, N), every other entry is 0, and the
\* control integrate_nlp_sol applied at integration step k is u_dp[k].
C14_ExpandedControlApplied ==
  pc = "done" =>
    /\ Len(u_dp) = Tf * Nperday
    /\ \A i \in 0..(N - 1) : u_dp[i * Nperday + 1] = u_opt[i + 1]
    /\ \A m \in 0..(Tf * Nperday - 1) : m % Nperday # 0 => u_dp[m + 1] = 0
    /\ Len(u_applied) = Len(u_dp)
    /\ \A m \in 1..Len(u_dp) : u_applied[m] = u_dp[m]

\* a finished run that treats at a stage after the first and not at the first
C14_Witness ==
  /\ pc = "done"
  /\ u_opt[1] = 0
  /\ \E i \in 1..(N - 1) : u_opt[i + 1] = 1 /\ u_applied[i * Nperday + 1] = 1


\* C15: dynamic_prog_pv takes forbidden_days in the format of
\* allowed_generator: for options with a week mask and a forbidden_days list
\* of single days and ranges the calendar step succeeds, and stage k in
\* [0, N) is blocked iff its weekday is not enabled or k is one of the days
\* allowed_generator flattens the list to.
C15_ForbiddenDaysFormat ==
  ( /\ pc # "start"
    /\ "allowed_days" \in DOMAIN allowed_opts
    /\ "forbidden_days" \in DOMAIN allowed_opts )
  => /\ pc # "error"
     /\ \A kk \in 0..(N - 1) :
          IsBlocked(kk) <=> \/ allowed_opts["allowed_days"][(kk % 7) + 1] # 1
                            \/ kk \in GenForbidden(allowed_opts)


HeuComplete == heu.pc = "returned" /\ heu.error_flag = 0 /\ heu.k >= N_int
HeuGaveUp   == heu.pc = "returned" /\ heu.error_flag = 1 /\ heu.k <= 0

\* C17: every call of pv_heuristic_alg ends, and it ends in one of two ways:
\* with error_flag 0 after k has reached N, or with error_flag 1 after the
\* backward search has reached k <= 0.
C17_HeuristicTerminates == <>(HeuComplete \/ HeuGaveUp)


HasCalendar(opts) ==
  \/ "allowed_days" \in DOMAIN opts
  \/ "allowed_hours" \in DOMAIN opts
  \/ "forbidden_days" \in DOMAIN opts

IsHeuristic(opts) == "objective" \in DOMAIN opts /\ opts["objective"] = "heuristic"

\* C16: whatever pv_schedule returns is a tuple of nine entries
\* (x1, x2, x3, q, u, tgrid, sol, allowed_arr, error_flag).  With objective
\* 'heuristic' sol is {} and error_flag is the flag pv_heuristic_alg
\* returned; with any other objective, or none, error_flag is 0; allowed_arr
\* is [1]*N when dict_opts has none of allowed_days, allowed_hours and
\* forbidden_days.  (A call that pv_heuristic_alg ends with an exception
\* returns nothing; that is the subject of C17.)
C16_ReturnsNineTuple ==
  sched.pc = "returned" =>
    /\ Len(sched.ret) = 9
    /\ sched.ret[8] = allowed_arr
    /\ IsHeuristic(allowed_opts) =>
         /\ sched.ret[7] = "{}"
         /\ heu.pc = "returned"
         /\ sched.ret[9] = heu.error_flag
    /\ ~IsHeuristic(allowed_opts) => sched.ret[9] = 0 /\ heu.pc = "idle"
    /\ ~HasCalendar(allowed_opts) => sched.ret[8] = Ones(Tf * Nperday)

\* pv_schedule has returned the error flag 1 of the heuristic, for options
\* without a calendar
C16_Witness ==
  /\ sched.pc = "returned"
  /\ IsHeuristic(allowed_opts)
  /\ ~HasCalendar(allowed_opts)
  /\ sched.ret[9] = 1


\* the policy of stage kk by the dense backward induction, which uses the
\* admissible set of stage kk, as a set of cells
StagePolicy(kk) == {c \in Cells(NX) : DenseDP[kk].pol[c]}

\* C18: the backward sweep of dynamic_prog_pv appends the policy of stage k
\* for k = N-1, N-2, ..., 0 in this order; the list is reversed when the
\* replay starts and is not changed afterwards; every replay step k reads, as
\* U_opt[k], the policy of stage k.
C18_PolicyOrder ==
  [][ /\ BackwardStage =>
           /\ k = N - 1 - Len(U_opt)
           /\ U_opt' = Append(U_opt, StagePolicy(k))
           /\ k' = k - 1
      /\ StartReplay =>
           /\ Len(U_opt) = N
           /\ \A kk \in 0..(N - 1) : U_opt'[kk + 1] = U_opt[N - kk]
      /\ pc = "replay" => U_opt' = U_opt
      /\ ReplayStep =>
           /\ U_opt[k + 1] = StagePolicy(k)
           /\ u_opt' = Append(u_opt, IF <<i1, i2, i3>> \in StagePolicy(k) THEN 1 ELSE 0)
    ]_vars

\* the replay has run over at least two stages, one of them blocked, whose
\* policies differ between the first and the last stage
C18_Witness ==
  /\ pc = "replay"
  /\ k = N
  /\ N >= 2
  /\ U_opt[1] # U_opt[N]
  /\ \E kk \in 0..(N - 1) : IsBlocked(kk)
  /\ \E kk \in 0..(N - 1) : ~IsBlocked(kk) /\ U_opt[kk + 1] # {}


TransitionTable == <<next_x1, next_x2, next_x3, stage_J>>

\* C19: the transition table (next_x1, next_x2, next_x3, stage_J) of
\* dynamic_prog_pv is written once, by the rounding step that precedes the
\* backward sweep and from the empty table; every backward stage, the
\* reordering and every replay step leave it as it is.
C19_TableWrittenOnce ==
  [][ /\ TransitionTable' # TransitionTable =>
           /\ pc = "round" /\ pc' = "backward"
           /\ TransitionTable = <<NoTable, NoTable, NoTable, NoTable>>
      /\ (BackwardStage \/ StartReplay \/ ReplayStep \/ ExpandControl) =>
           TransitionTable' = TransitionTable
    ]_vars

\* a finished run of at least two stages on a table that holds finite and
\* infinite costs and a move to another cell
C19_Witness ==
  /\ pc = "done"
  /\ N >= 2
  /\ \E u \in 0..1, c \in Cells(NX) : stage_J[u][c] = inf
  /\ \E u \in 0..1, c \in Cells(NX) :
       stage_J[u][c] # inf /\ <<next_x1[u][c], next_x2[u][c], next_x3[u][c]>> # c


\* the path that applies control 0 at each of n stages from cell c stays in
\* the grid: no rounded index on it lies outside [0, NX)
RECURSIVE ZeroPathStays(_, _)
ZeroPathStays(c, n) ==
  IF n = 0 THEN TRUE
  ELSE /\ \A dim \in 1..3 : ~OutOfGrid(Rounded(dim, 0, c), NX)
       /\ ZeroPathStays(<<Rounded(1, 0, c), Rounded(2, 0, c), Rounded(3, 0, c)>>, n - 1)

\* C20: for a run of dynamic_prog_pv without blocked stages whose start cell
\* has a finite cost-to-go (control 0 costs nothing, control 1 costs a
\* positive amount): if the path that applies control 0 at every stage stays
\* in the grid for all N stages the replay treats at no stage, and if that
\* path leaves the grid the replay treats at one stage at least.
C20_TreatsIffNeeded ==
  ( /\ pc = "done"
    /\ J[StartCell] # inf
    /\ \A kk \in 0..(N - 1) : ~IsBlocked(kk) )
  => /\ \A u \in 0..1, c \in Cells(NX) :
          stage_J[u][c] # inf => (IF u = 0 THEN stage_J[u][c] = 0 ELSE stage_J[u][c] > 0)
     /\ ZeroPathStays(StartCell, N) => \A kk \in 1..N : u_opt[kk] = 0
     /\ ~ZeroPathStays(StartCell, N) => \E kk \in 1..N : u_opt[kk] = 1

\* a finished run without blocked stages, of finite cost, in which the
\* all-zero path leaves the grid in x3 and the replay treats
C20_Witness ==
  /\ pc = "done"
  /\ N >= 2
  /\ J[StartCell] # inf
  /\ \A kk \in 0..(N - 1) : ~IsBlocked(kk)
  /\ ~ZeroPathStays(StartCell, N)
  /\ \E kk \in 1..N : u_opt[kk] = 1
  /\ \E kk \in 1..N : u_opt[kk] = 0


\* the least total stage cost of an admissible control sequence from cell c
MinCost(c) ==
  LET costs == {PathCost(c, us) : us \in Admissible}
  IN CHOOSE m \in costs : \A x \in costs : LeqInf(m, x)

\* C21: when dynamic_prog_pv has finished, J[c] is for every grid cell c the
\* cost-to-go of stage 0 from c (the least total stage cost over the control
\* sequences that use control 0 at the blocked stages), and the cost the
\* replay accumulated from the start cell equals J of the start cell, also
\* when that is +infinity.
C21_ValueIsCostToGo ==
  pc = "done" =>
    /\ \A c \in Cells(NX) : J[c] = MinCost(c)
    /\ cost = J[StartCell]

\* a finished run of two stages or more whose start cell has infinite cost
\* while another cell has a positive finite cost
C21_Witness ==
  /\ pc = "done"
  /\ N >= 2
  /\ J[StartCell] = inf /\ cost = inf
  /\ \E c \in Cells(NX) : J[c] # inf /\ J[c] > 0


\* the cost of control u at cell c before a backward stage: the stage cost
\* plus the value, as it is before the stage, of the destination cell
C22_Cand(u, c) ==
  PlusInf(J[<<next_x1[u][c], next_x2[u][c], next_x3[u][c]>>], stage_J[u][c])

\* C22: a backward stage k of dynamic_prog_pv replaces the value function as
\* a whole: the new value of every cell is the least, over the admissible
\* controls of stage k, of the stage cost plus the value that the destination
\* cell had before the stage (the complete value function of stage k+1).
C22_StageReadsOldValues ==
  [][ BackwardStage =>
        LET feas == IF IsBlocked(k) THEN {0} ELSE {0, 1}
        IN \A c \in Cells(NX) :
             /\ \E u \in feas : J'[c] = C22_Cand(u, c)
             /\ \A u \in feas : LeqInf(J'[c], C22_Cand(u, c))
    ]_vars

\* two stages or more are done, the last of them free, and the value
\* function they produced is finite and positive at one cell, differs between
\* cells and is reached by control 1 somewhere
C22_Witness ==
  /\ pc = "backward"
  /\ Len(U_opt) >= 2
  /\ ~IsBlocked(k + 1)
  /\ U_opt[Len(U_opt)] # {}
  /\ \E c \in Cells(NX) : J[c] # inf /\ J[c] > 0
  /\ \E c1, c2 \in Cells(NX) : J[c1] # J[c2]


\* C23: after a backward stage k of dynamic_prog_pv the value of a cell c is
\* +infinity iff every admissible control of stage k has an infinite stage
\* cost at c or leads to a cell whose value before the stage (stage k+1) is
\* +infinity.
C23_InfinityPropagates ==
  [][ BackwardStage =>
        LET feas == IF IsBlocked(k) THEN {0} ELSE {0, 1}
            dest(u, c) == <<next_x1[u][c], next_x2[u][c], next_x3[u][c]>>
        IN \A c \in Cells(NX) :
             J'[c] = inf <=> \A u \in feas : stage_J[u][c] = inf \/ J[dest(u, c)] = inf
    ]_vars

\* a stage is done after which one cell has infinite value and another a
\* finite value although control 0 leaves the grid there
C23_Witness ==
  /\ pc = "backward"
  /\ Len(U_opt) >= 1
  /\ \E c \in Cells(NX) : J[c] = inf
  /\ \E c \in Cells(NX) : J[c] # inf /\ stage_J[0][c] = inf


\* C24: in the transition table of dynamic_prog_pv control index 0 is the
\* entry integrated with control value 0 (no reduction of x3, no cost) and
\* control index 1 is the entry integrated with control value 1: the
\* destination is that of the treated state and the stage cost, where finite,
\* is that of a full treatment (NU-1 units of 1/(NU-1)); for every NU >= 2.
C24_IndexOneIsTreat ==
  TableReady =>
    \A c \in Cells(NX) :
      /\ next_x3[0][c] = Clamp(RoundIdx(Integrate(3, NX, c[3]), 3, NX, p_shift), NX)
      /\ stage_J[0][c] # inf => stage_J[0][c] = 0
      /\ next_x3[1][c] = Clamp(RoundIdx(Treat(Integrate(3, NX, c[3])), 3, NX, p_shift), NX)
      /\ stage_J[1][c] # inf => stage_J[1][c] = NU - 1


\* C25: the reduction of x3 in the treat transition of the table built by
\* dynamic_prog_pv is the one the re-integration of the schedule applies at a
\* treatment, x3 * (1 - max_fraction), for every max_fraction.
RatEq(a, b) == a.num * b.den = b.num * a.den

C25_TableUsesMaxFraction ==
  pc = "done" =>
    \A m \in 1..Len(u_applied) :
      u_applied[m] = 1 =>
        \A c \in Cells(NX) :
          RatEq(X3_before_shift[NU - 1][c],
                Jump(Integrate(3, NX, c[3]), u_applied[m], max_fraction))


\* C26: when pv_heuristic_alg returns with error_flag 0, no state of the
\* trajectory after the initial one exceeds the upper constraint
\* x3 <= 1.1*Base, and no state produced by a treatment step violates the
\* lower constraint x3 > 0.8*Base.
C26_ConstraintsRespected ==
  (heu.pc = "returned" /\ heu.error_flag = 0) =>
    \A j \in 2..Len(heu.x_ret) :
      /\ heu.x_ret[j] # "high"
      /\ heu.u[j - 1] = 1 => heu.x_ret[j] # "low"


\* C27: pv_heuristic_alg sets u[k] to 1 only at a time point k with
\* 0 <= k < N that is allowed, and never sets an entry of u back to 0.
C27_TreatOnlyAllowed ==
  [][ (heu.pc = "loop" /\ heu'.pc = "loop") =>
        /\ \A j \in 1..Len(heu.u) : heu.u[j] = 1 => heu'.u[j] = 1
        /\ heu'.u # heu.u =>
             /\ 0 <= heu.k /\ heu.k < N_int
             /\ allowed_arr[heu.k + 1] >= 1
             /\ heu'.u = [heu.u EXCEPT ![heu.k + 1] = 1] ]_vars


\* C28: whenever pv_heuristic_alg takes an integration step from time point
\* k, in forward mode or as a trial treatment in backward mode, x_opt holds
\* exactly k+1 states; and on return with error_flag 0 the trajectory has
\* N+1 states.
C28_Trial(h) ==
  /\ h.pc = "loop" /\ h.k < N_int /\ h.back_flag
  /\ ~(Count(h) >= MinCount /\ h.k <= 0)
  /\ InRange(allowed_arr, h.k)
  /\ Item(allowed_arr, h.k) >= 1 /\ Item(h.u, h.k) = 0

C28_StepStartsAtK ==
  /\ (heu.pc = "loop" /\ heu.k < N_int /\ ~heu.back_flag) => Len(heu.x_opt) = heu.k + 1
  /\ C28_Trial(heu) =>
       Len(heu.x_opt) - (IF heu.k # 0 /\ ~heu.first_step_back THEN 1 ELSE 0) = heu.k + 1
  /\ (heu.pc = "returned" /\ heu.error_flag = 0) => Len(heu.x_ret) = N_int + 1


\* C29: integrate_nlp_sol integrates the j-th allowed point (counting from 0)
\* with u_opt[j] and the x3 factor 1 - u_opt[j]*max_fraction, every
\* non-allowed point with control 0 and no change of x3; no entry of u_opt
\* is used at two points when len(u_opt) is the number of allowed points;
\* and the returned state trajectories, objective trajectory and tgrid all
\* have N+1 entries, N+21 with the end point extension.
AllowedBefore(m) == Len(SelectSeq(SubSeq(allowed_arr, 1, m - 1), LAMBDA a : a >= 1))

C29_ControlsInOrder ==
  intg.pc # "idle" =>
    /\ \A m \in 1..Len(intg.used) :
         IF allowed_arr[m] >= 1
         THEN AllowedBefore(m) < Len(intg.u_opt) =>
                /\ intg.used[m] = AllowedBefore(m)
                /\ intg.st.applied[m] = intg.u_opt[AllowedBefore(m) + 1]
                /\ RatEq(intg.jump[m], Jump(One, intg.u_opt[AllowedBefore(m) + 1], max_fraction))
         ELSE /\ intg.used[m] = -1
              /\ intg.st.applied[m] = 0
              /\ RatEq(intg.jump[m], One)
    /\ Len(intg.u_opt) = NumControls(allowed_arr) =>
         \A m1, m2 \in 1..Len(intg.used) :
           (intg.used[m1] = intg.used[m2] /\ intg.used[m1] # -1) => m1 = m2
    /\ intg.pc = "returned" =>
         LET len == IF intg.two_stage THEN N_int + 21 ELSE N_int + 1
         IN \A j \in {1, 2, 3, 4, 6} : intg.ret[j] = len

C29_Witness ==
  /\ intg.pc = "returned" /\ intg.two_stage
  /\ N_int = MaxNInt
  /\ allowed_arr = <<1, 0, 1>>
  /\ intg.u_opt = <<1, 0>>
  /\ intg.used = <<0, -1, 1>>


\* C30: sumup returns a 0/1 sequence as long as u_opt; after every prefix of
\* k entries the number of ones emitted is less than 1.5 * (the sum of the
\* prefix entries exceeding epsilon) + 1; no 1 is emitted before the first
\* entry exceeding epsilon, and all entries are 0 if none exceeds epsilon.
\* The sum of the entries is the exact one, in multiples of 2^-56.
ExAdd(x, y) ==
  LET l == x.lo + y.lo
  IN [hi |-> x.hi + y.hi + l \div Limb, lo |-> l % Limb]

RECURSIVE PrefixSum(_, _)
PrefixSum(u, m) ==
  IF m = 0 THEN FZero
  ELSE IF ExceedsEps(u[m]) THEN ExAdd(PrefixSum(u, m - 1), u[m]) ELSE PrefixSum(u, m - 1)

OnesUpTo(m) == Cardinality({j \in 1..m : su.u_sumup[j] = 1})

\* ones < 1.5 * s + 1, as 2 * (ones - 1) < 3 * s
C30_Below(ones, s) ==
  LET t == ExAdd(ExAdd(s, s), s)
  IN FLess([hi |-> 2 * (ones - 1) * 2^26, lo |-> 0], t) \/ ones = 0

C30_SumUpBound ==
  su.pc # "idle" =>
    /\ Len(su.u_sumup) = Len(su.u_opt)
    /\ \A j \in 1..Len(su.u_sumup) : su.u_sumup[j] \in {0, 1}
    /\ \A m \in 0..su.k :
         /\ C30_Below(OnesUpTo(m), PrefixSum(su.u_opt, m))
         /\ (\A j \in 1..m : ~ExceedsEps(su.u_opt[j])) => OnesUpTo(m) = 0

=============================================================================
